---- MODULE Spec2Model ----
(***************************************************************************)
(* Fract: fixed-width fraction arithmetic (src/src/lib.rs) and its         *)
(* Euclidean gcd helper (src/src/utils.rs), modelled for the u8 variant    *)
(* Fract8 / gcd_u8.  The u16, u32 and u64 variants are the same text with  *)
(* the integer type replaced.                                              *)
(*                                                                         *)
(* The library keeps no state of its own; the state of the model is the    *)
(* call in flight: which method was called, on which operands, where the   *)
(* gcd loop stands and what the call produced (a value or a panic).        *)
(*                                                                         *)
(* The arithmetic operators of the source are the plain `*`, `+`, `-` of   *)
(* Rust: with overflow checks compiled in (the default of the dev and test *)
(* profiles) an overflowing operation panics, without them (the default of *)
(* the release profile) it wraps modulo 2^8.  The build is a variable of   *)
(* the model, chosen in Init.  Integer division by zero panics in every    *)
(* build.                                                                  *)
(***************************************************************************)
EXTENDS Integers, FiniteSets

VARIABLES
    overflow_checks,  \* TRUE: the build panics on overflow; FALSE: it wraps
    pc,               \* "idle", "gcd" (inside the loop of gcd_u8), "gcd_ret", "done"
    op,               \* the method called: "none", "invert", "expand", ...
    calls,            \* number of calls made in the current chain (0, 1 or 2)
    x,                \* the fraction the first call of the chain was made on
    self,             \* receiver of the current call
    rhs,              \* right operand of the current call (add, sub, mul, div)
    multiplicator,    \* factor of the current call (expand)
    first,            \* gcd_u8: first argument
    second,           \* gcd_u8: second argument
    a,                \* gcd_u8: local a
    b,                \* gcd_u8: local b
    result            \* outcome of the current call

vars == <<overflow_checks, pc, op, calls, x, self, rhs, multiplicator,
          first, second, a, b, result>>

----------------------------------------------------------------------------
(* The integer type. *)

Bits == 8
Modulus == 2 ^ Bits
U8Max == Modulus - 1
U8 == 0 .. U8Max

(* Bounds of the operand samples of the two- and three-operand calls. *)
MaxSmall == 10
MaxHigh == 2

Samples == (0 .. MaxSmall) \cup ((U8Max - MaxHigh + 1) .. U8Max) \cup {16, 128}

----------------------------------------------------------------------------
(* Values and outcomes. *)

Fract8(n, d) == [denominator |-> d, numerator |-> n]

NoFract == Fract8(0, 0)

Value(n, d) == [denominator |-> d, numerator |-> n, panic |-> "none"]

Panic(msg) == [denominator |-> 0, numerator |-> 0, panic |-> msg]

NoResult == Panic("pending")

Returned(r) == r.panic = "none"

FractOf(r) == Fract8(r.numerator, r.denominator)

MulOverflow == "attempt to multiply with overflow"
AddOverflow == "attempt to add with overflow"
SubOverflow == "attempt to subtract with overflow"
DivByZero == "attempt to divide by zero"
RemByZero == "attempt to calculate the remainder with a divisor of zero"

----------------------------------------------------------------------------
(* u8 arithmetic: a * b, a + b, a - b, a / b. *)

MulPanics(m, n) == overflow_checks /\ m * n > U8Max
MulWrap(m, n) == (m * n) % Modulus

AddPanics(m, n) == overflow_checks /\ m + n > U8Max
AddWrap(m, n) == (m + n) % Modulus

SubPanics(m, n) == overflow_checks /\ m < n
SubWrap(m, n) == (m - n) % Modulus

----------------------------------------------------------------------------
(* The methods of Fract8 that are straight-line code. *)

invert_copies(s) == Value(s.denominator, s.denominator)
invert(s) == Value(s.denominator, s.numerator)

expand_numerator_only(s, m) ==
    IF MulPanics(s.numerator, m)
    THEN Panic(MulOverflow)
    ELSE Value(MulWrap(s.numerator, m), s.denominator)
expand(s, m) ==
    IF MulPanics(s.numerator, m) \/ MulPanics(s.denominator, m)
    THEN Panic(MulOverflow)
    ELSE Value(MulWrap(s.numerator, m), MulWrap(s.denominator, m))

(* The alignment both add and sub start with: <<nlhs, nrhs>> as outcomes. *)
align_without_old_denom(s, r) ==
    IF s.denominator # r.denominator
    THEN LET nlhs == expand(s, r.denominator)
         IN  <<nlhs, IF Returned(nlhs) THEN expand(r, nlhs.denominator) ELSE nlhs>>
    ELSE <<Value(s.numerator, s.denominator), Value(r.numerator, r.denominator)>>
align(s, r) ==
    IF s.denominator # r.denominator
    THEN <<expand(s, r.denominator), expand(r, s.denominator)>>
    ELSE <<Value(s.numerator, s.denominator), Value(r.numerator, r.denominator)>>

add(s, r) ==
    LET nlhs == align(s, r)[1]
        nrhs == align(s, r)[2]
    IN  IF ~Returned(nlhs) THEN nlhs
        ELSE IF ~Returned(nrhs) THEN nrhs
        ELSE IF AddPanics(nlhs.numerator, nrhs.numerator) THEN Panic(AddOverflow)
        ELSE Value(AddWrap(nlhs.numerator, nrhs.numerator), nlhs.denominator)

sub(s, r) ==
    LET nlhs == align(s, r)[1]
        nrhs == align(s, r)[2]
    IN  IF ~Returned(nlhs) THEN nlhs
        ELSE IF ~Returned(nrhs) THEN nrhs
        ELSE IF SubPanics(nlhs.numerator, nrhs.numerator) THEN Panic(SubOverflow)
        ELSE Value(SubWrap(nlhs.numerator, nrhs.numerator), nlhs.denominator)

mul(s, r) ==
    IF MulPanics(s.numerator, r.numerator) \/ MulPanics(s.denominator, r.denominator)
    THEN Panic(MulOverflow)
    ELSE Value(MulWrap(s.numerator, r.numerator), MulWrap(s.denominator, r.denominator))

div(s, r) == mul(s, FractOf(invert(r)))

(* The exit test of the loop of gcd_u8: if b == 0 { break; }. *)
gcd_break_at_one(n) == n <= 1
gcd_break_inverted(n) == n # 0
gcd_break(n) == n = 0

(* a % b panics when the divisor is 0. *)
gcd_rem_panics(n) == n = 0

(* The loop body of gcd_u8: temp = b; b = a % b; a = temp. *)
gcd_body_keeps_a(m, n) == <<m, m % n>>
gcd_body(m, n) == <<n, m % n>>

(* The struct expression of reduce, once gcd is known. *)
reduce_divide_numerator_only(s, gcd) ==
    IF gcd = 0
    THEN Panic(DivByZero)
    ELSE Value(s.numerator \div gcd, s.denominator)
reduce_divide_guarded(s, gcd) ==
    IF gcd = 0
    THEN Value(s.numerator, s.denominator)
    ELSE Value(s.numerator \div gcd, s.denominator \div gcd)
reduce_divide(s, gcd) ==
    IF gcd = 0
    THEN Panic(DivByZero)
    ELSE Value(s.numerator \div gcd, s.denominator \div gcd)

----------------------------------------------------------------------------
(* The state machine. *)

Idle ==
    /\ pc = "idle" /\ op = "none" /\ calls = 0
    /\ x = NoFract /\ self = NoFract /\ rhs = NoFract /\ multiplicator = 0
    /\ first = 0 /\ second = 0 /\ a = 0 /\ b = 0
    /\ result = NoResult

Init == overflow_checks \in BOOLEAN /\ Idle

(* A call of a straight-line method on fresh operands; the caller is idle. *)
Call(name, s, r, m, out) ==
    /\ pc' = "done" /\ op' = name /\ calls' = 1
    /\ x' = s /\ self' = s /\ rhs' = r /\ multiplicator' = m
    /\ result' = out
    /\ UNCHANGED <<overflow_checks, first, second, a, b>>

CallInvert ==
    /\ pc = "idle"
    /\ \E n \in U8, d \in U8 :
            Call("invert", Fract8(n, d), NoFract, 0, invert(Fract8(n, d)))

CallExpand ==
    /\ pc = "idle"
    /\ \E n \in Samples, d \in Samples, m \in Samples :
            Call("expand", Fract8(n, d), NoFract, m, expand(Fract8(n, d), m))

CallAdd ==
    /\ pc = "idle"
    /\ \E n1 \in Samples, d1 \in Samples, n2 \in Samples, d2 \in Samples :
            Call("add", Fract8(n1, d1), Fract8(n2, d2), 0,
                 add(Fract8(n1, d1), Fract8(n2, d2)))

CallSub ==
    /\ pc = "idle"
    /\ \E n1 \in Samples, d1 \in Samples, n2 \in Samples, d2 \in Samples :
            Call("sub", Fract8(n1, d1), Fract8(n2, d2), 0,
                 sub(Fract8(n1, d1), Fract8(n2, d2)))

CallMul ==
    /\ pc = "idle"
    /\ \E n1 \in Samples, d1 \in Samples, n2 \in Samples, d2 \in Samples :
            Call("mul", Fract8(n1, d1), Fract8(n2, d2), 0,
                 mul(Fract8(n1, d1), Fract8(n2, d2)))

CallDiv ==
    /\ pc = "idle"
    /\ \E n1 \in Samples, d1 \in Samples, n2 \in Samples, d2 \in Samples :
            Call("div", Fract8(n1, d1), Fract8(n2, d2), 0,
                 div(Fract8(n1, d1), Fract8(n2, d2)))

(* reduce: enters gcd_u8(self.numerator, self.denominator). *)
EnterReduce(s) ==
    /\ pc' = "gcd" /\ op' = "reduce"
    /\ self' = s
    /\ first' = s.numerator /\ second' = s.denominator
    /\ a' = s.numerator /\ b' = s.denominator
    /\ result' = NoResult
    /\ UNCHANGED <<overflow_checks, rhs, multiplicator>>

CallReduce ==
    /\ pc = "idle"
    /\ \E n \in U8, d \in U8 :
        /\ EnterReduce(Fract8(n, d))
        /\ x' = Fract8(n, d)
        /\ calls' = 1

(* gcd_u8: one iteration of the loop, taken when the exit test fails; the  *)
(* remainder a % b panics if its divisor is 0.                             *)
GcdStep ==
    /\ pc = "gcd" /\ ~gcd_break(b)
    /\ IF gcd_rem_panics(b)
       THEN /\ pc' = "done"
            /\ result' = Panic(RemByZero)
            /\ UNCHANGED <<a, b>>
       ELSE /\ a' = gcd_body(a, b)[1]
            /\ b' = gcd_body(a, b)[2]
            /\ UNCHANGED <<pc, result>>
    /\ UNCHANGED <<overflow_checks, op, calls, x, self, rhs, multiplicator,
                   first, second>>

(* gcd_u8: b == 0, break; the function returns a. *)
GcdBreak ==
    /\ pc = "gcd" /\ gcd_break(b)
    /\ pc' = "gcd_ret"
    /\ UNCHANGED <<overflow_checks, op, calls, x, self, rhs, multiplicator,
                   first, second, a, b, result>>

(* reduce: the two divisions by the returned gcd. *)
ReduceDivide ==
    /\ pc = "gcd_ret" /\ op = "reduce"
    /\ result' = reduce_divide(self, a)
    /\ pc' = "done"
    /\ UNCHANGED <<overflow_checks, op, calls, x, self, rhs, multiplicator,
                   first, second, a, b>>

(* The value a call returned is the receiver of a second call of the same  *)
(* method: x.reduce().reduce(), x.invert().invert().                       *)
ReduceAgain ==
    /\ pc = "done" /\ op = "reduce" /\ calls = 1 /\ Returned(result)
    /\ EnterReduce(FractOf(result))
    /\ calls' = 2
    /\ UNCHANGED x

InvertAgain ==
    /\ pc = "done" /\ op = "invert" /\ calls = 1 /\ Returned(result)
    /\ self' = FractOf(result)
    /\ result' = invert(FractOf(result))
    /\ calls' = 2
    /\ UNCHANGED <<overflow_checks, pc, op, x, rhs, multiplicator,
                   first, second, a, b>>

(* The caller takes the outcome; the next call starts from fresh operands. *)
Return ==
    /\ pc = "done"
    /\ pc' = "idle" /\ op' = "none" /\ calls' = 0
    /\ x' = NoFract /\ self' = NoFract /\ rhs' = NoFract /\ multiplicator' = 0
    /\ first' = 0 /\ second' = 0 /\ a' = 0 /\ b' = 0
    /\ result' = NoResult
    /\ UNCHANGED overflow_checks

Next ==
    \/ CallInvert
    \/ CallExpand
    \/ CallAdd
    \/ CallSub
    \/ CallMul
    \/ CallDiv
    \/ CallReduce
    \/ GcdStep
    \/ GcdBreak
    \/ ReduceDivide
    \/ ReduceAgain
    \/ InvertAgain
    \/ Return

Spec == Init /\ [][Next]_vars

(* One call of reduce, up to its outcome.  A call that has started keeps   *)
(* running: the loop of gcd_u8 takes its next iteration, or its break.     *)
ReduceNext ==
    \/ CallReduce
    \/ GcdStep
    \/ GcdBreak
    \/ ReduceDivide

FairSpec ==
    /\ Init
    /\ [][ReduceNext]_vars
    /\ WF_vars(GcdStep)
    /\ WF_vars(GcdBreak)

----------------------------------------------------------------------------
(* Vocabulary of the properties. *)

(* c divides m, over the naturals (0 divides only 0). *)
Divides(c, m) == IF c = 0 THEN m = 0 ELSE m % c = 0

(* g is the greatest common divisor of m and n: a common divisor that every *)
(* common divisor divides.                                                  *)
IsGcd(g, m, n) ==
    /\ Divides(g, m)
    /\ Divides(g, n)
    /\ \A c \in U8 : (Divides(c, m) /\ Divides(c, n)) => Divides(c, g)

GcdReturned == pc = "gcd_ret"
Done(name) == pc = "done" /\ op = name

----------------------------------------------------------------------------
(* C1: whenever gcd_u8(first, second) returns, the returned a is the       *)
(* greatest common divisor of first and second: it divides both, and every *)
(* common divisor of both divides it; gcd(a, 0) = a, gcd(0, b) = b and     *)
(* gcd(0, 0) = 0.                                                          *)
C1_GcdIsGreatestCommonDivisor ==
    GcdReturned =>
        /\ IsGcd(a, first, second)
        /\ (second = 0 => a = first)
        /\ (first = 0 => a = second)

C1_Witness ==
    /\ GcdReturned
    /\ first = 10 /\ second = 18 /\ a = 2

(* C2: for a fraction (n, d) with n and d not both zero, reduce returns    *)
(* (n / g, d / g) where g is the greatest common divisor of n and d; the    *)
(* result is in lowest terms and n * d' = n' * d.                           *)
C2_ReduceToLowestTerms ==
    (Done("reduce") /\ ~(self.numerator = 0 /\ self.denominator = 0)) =>
        /\ Returned(result)
        /\ IsGcd(a, self.numerator, self.denominator)
        /\ a # 0
        /\ result.numerator = self.numerator \div a
        /\ result.denominator = self.denominator \div a
        /\ IsGcd(1, result.numerator, result.denominator)
        /\ self.numerator * result.denominator = result.numerator * self.denominator

C2_Witness ==
    /\ Done("reduce") /\ calls = 1
    /\ self = Fract8(10, 18)
    /\ result = Value(5, 9)

(* C3: reduce is idempotent: when reduce(x) returned a value, reduce of    *)
(* that value completes without a panic and returns the same fraction.     *)
C3_ReduceIdempotent ==
    (Done("reduce") /\ calls = 2) =>
        /\ Returned(result)
        /\ FractOf(result) = self

C3_Witness ==
    /\ Done("reduce") /\ calls = 2
    /\ x = Fract8(10, 18)
    /\ self = Fract8(5, 9)
    /\ result = Value(5, 9)

(* C4: reduce panics, with a division by zero, exactly when numerator and  *)
(* denominator are both zero; (n, 0) with n # 0 reduces to (1, 0) and       *)
(* (0, d) with d # 0 reduces to (0, 1).                                     *)
C4_ReduceFaultsOnlyOnZeroZero ==
    Done("reduce") =>
        /\ result.panic \in {"none", DivByZero}
        /\ (result.panic = DivByZero <=>
                (self.numerator = 0 /\ self.denominator = 0))
        /\ (self.numerator # 0 /\ self.denominator = 0 => result = Value(1, 0))
        /\ (self.numerator = 0 /\ self.denominator # 0 => result = Value(0, 1))

C4_Witness ==
    /\ Done("reduce")
    /\ self = Fract8(0, 0)
    /\ result = Panic(DivByZero)

(* C10: invert swaps numerator and denominator, and inverting the result   *)
(* gives back the fraction one started from, zero fields included.         *)
C10_InvertRoundTrip ==
    Done("invert") =>
        /\ result = Value(self.denominator, self.numerator)
        /\ (calls = 2 => FractOf(result) = x)

C10_Witness ==
    /\ Done("invert") /\ calls = 2
    /\ x = Fract8(0, 7)
    /\ self = Fract8(7, 0)
    /\ result = Value(0, 7)

----------------------------------------------------------------------------
(* The arithmetic claims.  Each is stated as the specification states it,  *)
(* for every build; the ...WithoutChecks forms restrict it to the builds   *)
(* without overflow checks, and the ...WithChecks forms say what the       *)
(* builds with overflow checks do instead.                                 *)

Wrapped(v) == v % Modulus
Fits(v) == v >= 0 /\ v <= U8Max

(* C5: expand returns ((n * f) mod 2^8, (d * f) mod 2^8) for every         *)
(* fraction (n, d) and factor f; products above 2^8 - 1 wrap and never     *)
(* fault.                                                                  *)
C5_ExpandWraps ==
    Done("expand") =>
        result = Value(Wrapped(self.numerator * multiplicator),
                       Wrapped(self.denominator * multiplicator))

C5_ExpandWrapsWithoutChecks == ~overflow_checks => C5_ExpandWraps

C5_ExpandWithChecks ==
    (overflow_checks /\ Done("expand")) =>
        IF Fits(self.numerator * multiplicator) /\ Fits(self.denominator * multiplicator)
        THEN result = Value(self.numerator * multiplicator,
                            self.denominator * multiplicator)
        ELSE result = Panic(MulOverflow)

(* C6: add returns ((n1*d2 + n2*d1) mod 2^8, (d1*d2) mod 2^8) when         *)
(* d1 # d2 and ((n1 + n2) mod 2^8, d1) when d1 = d2; the result is not     *)
(* reduced.                                                                *)
C6_AddCrossMultiplies ==
    Done("add") =>
        result =
            IF self.denominator # rhs.denominator
            THEN Value(Wrapped(self.numerator * rhs.denominator
                               + rhs.numerator * self.denominator),
                       Wrapped(self.denominator * rhs.denominator))
            ELSE Value(Wrapped(self.numerator + rhs.numerator), self.denominator)

C6_AddWithoutChecks == ~overflow_checks => C6_AddCrossMultiplies

C6_AddWithChecks ==
    (overflow_checks /\ Done("add")) =>
        LET unequal == self.denominator # rhs.denominator
            n1 == IF unequal THEN self.numerator * rhs.denominator ELSE self.numerator
            n2 == IF unequal THEN rhs.numerator * self.denominator ELSE rhs.numerator
            dd == IF unequal THEN self.denominator * rhs.denominator
                  ELSE self.denominator
        IN  IF ~(Fits(n1) /\ Fits(n2) /\ Fits(dd)) THEN result = Panic(MulOverflow)
            ELSE IF ~Fits(n1 + n2) THEN result = Panic(AddOverflow)
            ELSE result = Value(n1 + n2, dd)

(* C7: sub aligns as add does and subtracts the numerators:                *)
(* ((n1*d2 - n2*d1) mod 2^8, (d1*d2) mod 2^8) when d1 # d2 and             *)
(* ((n1 - n2) mod 2^8, d1) when d1 = d2; a smaller left numerator wraps    *)
(* and a value is returned, never a fault.                                 *)
C7_SubCrossMultiplies ==
    Done("sub") =>
        result =
            IF self.denominator # rhs.denominator
            THEN Value(Wrapped(self.numerator * rhs.denominator
                               - rhs.numerator * self.denominator),
                       Wrapped(self.denominator * rhs.denominator))
            ELSE Value(Wrapped(self.numerator - rhs.numerator), self.denominator)

C7_SubWithoutChecks == ~overflow_checks => C7_SubCrossMultiplies

C7_SubWithChecks ==
    (overflow_checks /\ Done("sub")) =>
        LET unequal == self.denominator # rhs.denominator
            n1 == IF unequal THEN self.numerator * rhs.denominator ELSE self.numerator
            n2 == IF unequal THEN rhs.numerator * self.denominator ELSE rhs.numerator
            dd == IF unequal THEN self.denominator * rhs.denominator
                  ELSE self.denominator
        IN  IF ~(Fits(n1) /\ Fits(n2) /\ Fits(dd)) THEN result = Panic(MulOverflow)
            ELSE IF ~Fits(n1 - n2) THEN result = Panic(SubOverflow)
            ELSE result = Value(n1 - n2, dd)

(* C8: mul returns ((n1*n2) mod 2^8, (d1*d2) mod 2^8), unreduced; an       *)
(* overflowing product wraps and never faults.                             *)
C8_MulWraps ==
    Done("mul") =>
        result = Value(Wrapped(self.numerator * rhs.numerator),
                       Wrapped(self.denominator * rhs.denominator))

C8_MulWithoutChecks == ~overflow_checks => C8_MulWraps

C8_MulWithChecks ==
    (overflow_checks /\ Done("mul")) =>
        IF Fits(self.numerator * rhs.numerator) /\ Fits(self.denominator * rhs.denominator)
        THEN result = Value(self.numerator * rhs.numerator,
                            self.denominator * rhs.denominator)
        ELSE result = Panic(MulOverflow)

(* C9: div(x, y) is mul(x, invert(y)), that is                             *)
(* ((n1*d2) mod 2^8, (d1*n2) mod 2^8); y's numerator is not checked, and   *)
(* dividing by a fraction with numerator 0 returns a fraction with         *)
(* denominator 0, without a fault.                                         *)
C9_DivMultipliesByInverse ==
    Done("div") =>
        /\ result = Value(Wrapped(self.numerator * rhs.denominator),
                          Wrapped(self.denominator * rhs.numerator))
        /\ (rhs.numerator = 0 => (Returned(result) /\ result.denominator = 0))

C9_DivWithoutChecks == ~overflow_checks => C9_DivMultipliesByInverse

(* In every build div never divides: its only panic is the overflow of a   *)
(* product, and its outcome is that of mul on the swapped right operand.   *)
C9_DivNeverDividesByZero ==
    Done("div") =>
        /\ result.panic \in {"none", MulOverflow}
        /\ result = mul(self, Fract8(rhs.denominator, rhs.numerator))
        /\ ((rhs.numerator = 0 /\ Returned(result)) => result.denominator = 0)

----------------------------------------------------------------------------
(* C11: when neither product overflows, expand preserves the rational      *)
(* value: for (n, d) with d # 0 and a factor f with n * f <= 2^8 - 1 and   *)
(* d * f <= 2^8 - 1, expand returns (n', d') with d' # 0 and               *)
(* n * d' = n' * d.  As stated, for every factor f:                        *)
ExpandInRange ==
    /\ Done("expand")
    /\ self.denominator # 0
    /\ Fits(self.numerator * multiplicator)
    /\ Fits(self.denominator * multiplicator)

C11_ExpandPreservesValue ==
    ExpandInRange =>
        /\ Returned(result)
        /\ result.denominator # 0
        /\ self.numerator * result.denominator = result.numerator * self.denominator

(* C11 as amended: the same for every factor f # 0 (the factor 0 gives     *)
(* (0, 0), whose denominator is 0).                                        *)
C11_ExpandPreservesValueNonZeroFactor ==
    (ExpandInRange /\ multiplicator # 0) =>
        /\ Returned(result)
        /\ result.denominator # 0
        /\ self.numerator * result.denominator = result.numerator * self.denominator

C11_Witness ==
    /\ ExpandInRange
    /\ self = Fract8(8, 10) /\ multiplicator = 10
    /\ result = Value(80, 100)

----------------------------------------------------------------------------
(* C12: gcd_u8 is total: once entered, the loop reaches its return; b      *)
(* strictly decreases on every iteration and never goes below 0; the       *)
(* remainder a % b is never evaluated with b = 0, so gcd_u8 never panics.  *)
InGcd == pc = "gcd"

C12_GcdTerminates ==
    /\ InGcd ~> GcdReturned
    /\ [][(InGcd /\ b # 0) => (b' >= 0 /\ b' < b)]_vars
    /\ [](result.panic # RemByZero)
    /\ []((InGcd \/ GcdReturned) => result = NoResult)

C12_Witness ==
    /\ GcdReturned
    /\ first = 144 /\ second = 233
    /\ a = 1 /\ b = 0

----------------------------------------------------------------------------
(* C13: add is structurally commutative, overflow included: x + y and      *)
(* y + x have the same outcome, the same numerator and denominator or the  *)
(* same panic; when both aligned operands exist they carry the same        *)
(* denominator, (d1 * d2) mod 2^8 if d1 # d2.                              *)
C13_AddCommutes ==
    Done("add") =>
        LET nlhs == align(self, rhs)[1]
            nrhs == align(self, rhs)[2]
        IN  /\ result = add(rhs, self)
            /\ (Returned(nlhs) /\ Returned(nrhs)) =>
                  /\ nlhs.denominator = nrhs.denominator
                  /\ (self.denominator # rhs.denominator =>
                        nlhs.denominator = Wrapped(self.denominator * rhs.denominator))

C13_Witness ==
    /\ Done("add")
    /\ ~overflow_checks
    /\ self = Fract8(255, 2) /\ rhs = Fract8(1, 3)
    /\ result = Value(255, 6)
    /\ add(rhs, self) = Value(255, 6)

====
